---- MODULE Spec2Model ----
(***************************************************************************)
(* Model of scripts/monitor.py: the monitor helper commands mc_dump,       *)
(* mc_dump_file, mc_uart_connect and mc_next_value, together with the      *)
(* external collaborators they drive (the system bus, the file stream, the *)
(* UART device with its CharReceived event, stdin and stdout).             *)
(***************************************************************************)
EXTENDS Integers, Sequences, FiniteSets, TLC

(* ---------------------------- bounds ----------------------------------- *)
MaxStart == 1      \* start addresses 0..MaxStart
MaxCount == 4      \* byte counts 0..MaxCount
MaxWid   == 3      \* row widths 1..MaxWid
MaxInput == 3      \* longest stdin contents before end-of-input
MaxRecv  == 2      \* most characters the device emits in one run
MaxCalls == 4      \* most mc_next_value calls in one run

(* ------------------------ external collaborators ----------------------- *)
\* Highest bus address any modelled read can touch (a row read may start
\* below start+count and extend wid-1 bytes further).
BusTop == MaxStart + MaxCount + MaxWid

Addr == 0..BusTop

\* Bus contents: ramp images whose seeds put the bytes around 0x00, 0x20,
\* 0x7F and 0xFF at the modelled addresses, and the image holding
\* 0x41 0x00 0x42 0x7F repeated.
ExampleBytes == <<65, 0, 66, 127>>

Seeds == {0, 28, 122, 250}

BusImages ==
  {[x \in Addr |-> (s + x) % 256] : s \in Seeds}
    \cup {[x \in Addr |-> ExampleBytes[(x % 4) + 1]]}

DefaultImage == [x \in Addr |-> x % 256]

\* sysbus.ReadBytes(address, n): the n bytes at address .. address+n-1.
ReadBytes(m, address, n) == [i \in 1..n |-> m[address + i - 1]]

\* Peripheral names known to the machine: a UART, a peripheral that is not
\* a UART, and a name that is not registered.
Names == {"uart0", "gpio", "missing"}

\* clr.Convert(self.Machine[name], IUART) succeeds only for a UART.
Converts(name) == name = "uart0"

\* Characters stdin can deliver, and ord() of each.
Chars == {"A", "B", "ESC"}

Ord(ch) == CASE ch = "A" -> 65 [] ch = "B" -> 66 [] ch = "ESC" -> 27

\* Bytes the device can emit through CharReceived.
DevBytes == {72, 10}

Paths == {"f1", "f2"}

NoFile == <<-1>>

\* File contents present before a command runs (NoFile: no such file).
OldContents == {NoFile, <<>>, <<9, 9, 9, 9, 9>>}

Offsets == {-1, 0, 1, 5}

RECURSIVE SeqsUpTo(_, _)
SeqsUpTo(S, n) ==
  IF n = 0 THEN {<<>>}
  ELSE LET P == SeqsUpTo(S, n - 1)
       IN  P \cup {Append(p, x) : p \in {q \in P : Len(q) = n - 1}, x \in S}

(* ------------------------------- state --------------------------------- *)
VARIABLES
  pc,            \* position of the running command
  result,        \* "running", the returned value, or "exception"
  mem,           \* bus contents
  reads,         \* ReadBytes calls issued, in order: <<address, length>>
  mem_start, mem_count, wid, a, rows,              \* mc_dump
  tab, filename, fs, fs_before, fl,                \* mc_dump_file (fs_before: files before the command)
  device_name, stdin_all, stdin, c, handlers,      \* mc_uart_connect
  written, fg_writing, cb_writing, cb_byte, out, recv,
  current_value, offsets, printed                  \* mc_next_value

busVars  == <<mem, reads>>
dumpVars == <<mem_start, mem_count, wid, a, rows>>
fileVars == <<tab, filename, fs, fs_before, fl>>
uartVars == <<device_name, stdin_all, stdin, c, handlers, written,
              fg_writing, cb_writing, cb_byte, out, recv>>
cntVars  == <<current_value, offsets, printed>>
vars == <<pc, result, busVars, dumpVars, fileVars, uartVars, cntVars>>

\* State right after the script is loaded, before any command runs.
Loaded ==
  /\ pc = "idle" /\ result = "running"
  /\ reads = <<>>
  /\ mem_start = 0 /\ mem_count = 0 /\ wid = 1 /\ a = 0 /\ rows = <<>>
  /\ tab = <<>> /\ filename = "f1" /\ fl = "none"
  /\ device_name = "uart0" /\ stdin_all = <<>> /\ stdin = <<>> /\ c = ""
  /\ handlers = 0 /\ written = <<>> /\ fg_writing = FALSE
  /\ cb_writing = FALSE /\ cb_byte = 0 /\ out = <<>> /\ recv = 0
  /\ current_value = 0 /\ offsets = <<>> /\ printed = <<>>

(* ------------------------------ mc_dump -------------------------------- *)
\* Printable column: "%c%c" % (chr(8), chr(c)) for a printable byte, else
\* "%c." % chr(8).  The result is the code point that follows the backspace.
Render(b) == IF ~((b < 32) \/ (b > 127)) THEN b ELSE 46

\* One printed line: the address, the hex column and the printable column,
\* both columns built by the fixed loops over range(0, wid).
\* Faulty variant of Row: the address column is off by one.
RowMut(address, data, w) ==
  [addr  |-> address + 1,
   hex   |-> [b \in 1..w |-> data[b]],
   ascii |-> [b \in 1..w |-> Render(data[b])]]

Row(address, data, w) ==
  [addr  |-> address,
   hex   |-> [b \in 1..w |-> data[b]],
   ascii |-> [b \in 1..w |-> Render(data[b])]]

\* mc_dump(mem_start_val, mem_count_val, wid_val): the arguments are
\* converted and the range(mem_start, mem_start + mem_count, wid) is entered.
DumpCall ==
  /\ pc = "idle"
  /\ \E s \in 0..MaxStart, n \in 0..MaxCount, w \in 1..MaxWid :
       /\ mem_start' = s /\ mem_count' = n /\ wid' = w /\ a' = s
  /\ pc' = "dump_loop"
  /\ UNCHANGED <<result, busVars, rows, fileVars, uartVars, cntVars>>

\* One iteration of the for loop: ReadBytes(a, wid), then the line is
\* printed.  A failing bus read propagates out of the command.
DumpRow ==
  /\ pc = "dump_loop"
  /\ a < mem_start + mem_count
  /\ reads' = Append(reads, <<a, wid>>)
  /\ \/ /\ rows' = Append(rows, Row(a, ReadBytes(mem, a, wid), wid))
        /\ a' = a + wid
        /\ UNCHANGED <<pc, result>>
     \/ /\ pc' = "raised" /\ result' = "exception"
        /\ UNCHANGED <<rows, a>>
  /\ UNCHANGED <<mem, mem_start, mem_count, wid, fileVars, uartVars, cntVars>>

\* The range is exhausted: the command returns.
DumpReturn ==
  /\ pc = "dump_loop"
  /\ ~(a < mem_start + mem_count)
  /\ pc' = "done" /\ result' = "None"
  /\ UNCHANGED <<busVars, dumpVars, fileVars, uartVars, cntVars>>

InitDump ==
  /\ Loaded
  /\ mem \in BusImages
  /\ fs = [p \in Paths |-> NoFile]
  /\ fs_before = fs

NextDump == DumpCall \/ DumpRow \/ DumpReturn

SpecDump == InitDump /\ [][NextDump]_vars

(* ---------------------------- mc_dump_file ----------------------------- *)
\* FileStream(filename, FileMode.Create, FileAccess.Write): the file is
\* created, or truncated when it exists.
\* Faulty variant of Created: an existing file keeps its content.
CreatedMut(old) == IF old = NoFile THEN <<>> ELSE old

Created(old) == <<>>

\* fl.Write(tab, 0, mem_count): the first mem_count bytes of tab follow the
\* bytes already in the file.
Written(old, buf, n) == old \o SubSeq(buf, 1, n)

\* mc_dump_file(mem_start_val, mem_count_val, filename).
FileCall ==
  /\ pc = "idle"
  /\ \E s \in 0..MaxStart, n \in 0..MaxCount, p \in Paths :
       /\ mem_start' = s /\ mem_count' = n /\ filename' = p
  /\ pc' = "file_read"
  /\ UNCHANGED <<result, busVars, wid, a, rows, tab, fs, fs_before, fl,
                 uartVars, cntVars>>

\* tab = sysbus.ReadBytes(mem_start, mem_count); a failing read propagates.
FileBusRead ==
  /\ pc = "file_read"
  /\ reads' = Append(reads, <<mem_start, mem_count>>)
  /\ \/ /\ tab' = ReadBytes(mem, mem_start, mem_count)
        /\ pc' = "file_open"
        /\ UNCHANGED result
     \/ /\ pc' = "raised" /\ result' = "exception"
        /\ UNCHANGED tab
  /\ UNCHANGED <<mem, dumpVars, filename, fs, fs_before, fl, uartVars, cntVars>>

\* fl = FileStream(...): the handle is open on success; a failing creation
\* raises without a handle.
FileOpen ==
  /\ pc = "file_open"
  /\ \/ /\ fs' = [fs EXCEPT ![filename] = Created(fs[filename])]
        /\ fl' = "open"
        /\ pc' = "file_write"
        /\ UNCHANGED result
     \/ /\ pc' = "raised" /\ result' = "exception"
        /\ UNCHANGED <<fs, fl>>
  /\ UNCHANGED <<busVars, dumpVars, tab, filename, fs_before, uartVars, cntVars>>

\* fl.Write(tab, 0, mem_count): either all bytes are written, or the write
\* raises after k < mem_count bytes and the statement after it never runs.
FileWrite ==
  /\ pc = "file_write"
  /\ \/ /\ fs' = [fs EXCEPT ![filename] = Written(fs[filename], tab, mem_count)]
        /\ pc' = "file_close"
        /\ UNCHANGED result
     \/ /\ \E k \in 0..(mem_count - 1) :
             fs' = [fs EXCEPT ![filename] = Written(fs[filename], tab, k)]
        /\ pc' = "raised" /\ result' = "exception"
     \/ /\ mem_count = 0
        /\ pc' = "raised" /\ result' = "exception"
        /\ UNCHANGED fs
  /\ UNCHANGED <<busVars, dumpVars, tab, filename, fs_before, fl, uartVars,
                 cntVars>>

\* fl.Close(), then the command returns.
FileClose ==
  /\ pc = "file_close"
  /\ fl' = "closed"
  /\ pc' = "done" /\ result' = "None"
  /\ UNCHANGED <<busVars, dumpVars, tab, filename, fs, fs_before, uartVars,
                 cntVars>>

InitFile ==
  /\ Loaded
  /\ mem \in BusImages
  /\ fs \in [Paths -> OldContents]
  /\ fs_before = fs

NextFile == FileCall \/ FileBusRead \/ FileOpen \/ FileWrite \/ FileClose

SpecFile == InitFile /\ [][NextFile]_vars

(* ---------------------------- mc_next_value ---------------------------- *)
\* Faulty variant of NextCounter: the offset leaks into the counter.
NextCounterMut(value, offset) == value + offset + 1

NextCounter(value, offset) == value + 1

\* mc_next_value(offset): prints "%d" % (current_value + offset), then
\* increments the global.
NextValue ==
  /\ pc = "idle"
  /\ Len(offsets) < MaxCalls
  /\ \E offset \in Offsets :
       /\ printed' = Append(printed, current_value + offset)
       /\ current_value' = NextCounter(current_value, offset)
       /\ offsets' = Append(offsets, offset)
  /\ UNCHANGED <<pc, result, busVars, dumpVars, fileVars, uartVars>>

InitCounter ==
  /\ Loaded
  /\ mem = DefaultImage
  /\ fs = [p \in Paths |-> NoFile]
  /\ fs_before = fs

NextCounterStep == NextValue

SpecCounter == InitCounter /\ [][NextCounterStep]_vars

(* --------------------------- mc_uart_connect --------------------------- *)
\* Values the command hands back to the monitor.
NotFoundStatus == "1"

\* The loop's exit test: ord(c) == 27.
\* Faulty variant of IsEsc: the wrong sentinel code.
IsEscMut(ch) == Ord(ch) = 26

IsEsc(ch) == Ord(ch) = 27

\* mc_uart_connect(device_name), with the characters stdin will deliver
\* before end-of-input.
UartCall ==
  /\ pc = "idle"
  /\ \E name \in Names, input \in SeqsUpTo(Chars, MaxInput) :
       /\ device_name' = name
       /\ stdin_all' = input /\ stdin' = input
  /\ pc' = "uart_convert"
  /\ UNCHANGED <<result, busVars, dumpVars, fileVars, c, handlers, written,
                 fg_writing, cb_writing, cb_byte, out, recv, cntVars>>

\* try: uart = clr.Convert(self.Machine[str(device_name)], IUART)
UartConvertOk ==
  /\ pc = "uart_convert"
  /\ Converts(device_name)
  /\ pc' = "print_redirecting"
  /\ UNCHANGED <<result, busVars, dumpVars, fileVars, uartVars, cntVars>>

\* except: the lookup or the conversion raised; the handler prints and
\* returns 1.
\* Faulty variant of UartConvertFail: the handler falls through.
UartConvertFailMut ==
  /\ pc = "uart_convert"
  /\ ~Converts(device_name)
  /\ pc' = "print_redirecting"
  /\ UNCHANGED <<result, busVars, dumpVars, fileVars, uartVars, cntVars>>

UartConvertFail ==
  /\ pc = "uart_convert"
  /\ ~Converts(device_name)
  /\ pc' = "print_not_found"
  /\ UNCHANGED <<result, busVars, dumpVars, fileVars, uartVars, cntVars>>

\* The foreground thread starts one of its three print statements.
FgWriteBegin ==
  /\ pc \in {"print_not_found", "print_redirecting", "print_disconnected"}
  /\ ~fg_writing
  /\ fg_writing' = TRUE
  /\ UNCHANGED <<pc, result, busVars, dumpVars, fileVars, device_name,
                 stdin_all, stdin, c, handlers, written, cb_writing, cb_byte,
                 out, recv, cntVars>>

\* print("Peripheral %s not found or not an IUART."); return 1
PrintNotFound ==
  /\ pc = "print_not_found" /\ fg_writing
  /\ fg_writing' = FALSE
  /\ out' = Append(out, <<"fg", "not found">>)
  /\ pc' = "done" /\ result' = NotFoundStatus
  /\ UNCHANGED <<busVars, dumpVars, fileVars, device_name, stdin_all, stdin,
                 c, handlers, written, cb_writing, cb_byte, recv, cntVars>>

\* print("Redirecting the input to %s, press <ESC> to quit...")
PrintRedirecting ==
  /\ pc = "print_redirecting" /\ fg_writing
  /\ fg_writing' = FALSE
  /\ out' = Append(out, <<"fg", "redirecting">>)
  /\ pc' = "subscribe"
  /\ UNCHANGED <<result, busVars, dumpVars, fileVars, device_name, stdin_all,
                 stdin, c, handlers, written, cb_writing, cb_byte, recv,
                 cntVars>>

\* uart.CharReceived += __printer
Subscribe ==
  /\ pc = "subscribe"
  /\ handlers' = handlers + 1
  /\ pc' = "read"
  /\ UNCHANGED <<result, busVars, dumpVars, fileVars, device_name, stdin_all,
                 stdin, c, written, fg_writing, cb_writing, cb_byte, out,
                 recv, cntVars>>

\* c = sys.stdin.read(1); if ord(c) == 27: break.  At end-of-input read
\* returns the empty string and ord raises.
ReadChar ==
  /\ pc = "read"
  /\ IF stdin = <<>>
       THEN /\ c' = ""
            /\ pc' = "raised" /\ result' = "exception"
            /\ UNCHANGED stdin
       ELSE /\ c' = Head(stdin)
            /\ stdin' = Tail(stdin)
            /\ pc' = IF IsEsc(Head(stdin)) THEN "unsubscribe" ELSE "write"
            /\ UNCHANGED result
  /\ UNCHANGED <<busVars, dumpVars, fileVars, device_name, stdin_all,
                 handlers, written, fg_writing, cb_writing, cb_byte, out,
                 recv, cntVars>>

\* uart.WriteChar(ord(c)); a raising call propagates out of the command.
WriteChar ==
  /\ pc = "write"
  /\ written' = Append(written, Ord(c))
  /\ \/ /\ pc' = "read"
        /\ UNCHANGED result
     \/ /\ pc' = "raised" /\ result' = "exception"
  /\ UNCHANGED <<busVars, dumpVars, fileVars, device_name, stdin_all, stdin,
                 c, handlers, fg_writing, cb_writing, cb_byte, out, recv,
                 cntVars>>

\* uart.CharReceived -= __printer
Unsubscribe ==
  /\ pc = "unsubscribe"
  /\ handlers' = handlers - 1
  /\ pc' = "print_disconnected"
  /\ UNCHANGED <<result, busVars, dumpVars, fileVars, device_name, stdin_all,
                 stdin, c, written, fg_writing, cb_writing, cb_byte, out,
                 recv, cntVars>>

\* print("Disconnected from %s"); the command returns None.
PrintDisconnected ==
  /\ pc = "print_disconnected" /\ fg_writing
  /\ fg_writing' = FALSE
  /\ out' = Append(out, <<"fg", "disconnected">>)
  /\ pc' = "done" /\ result' = "None"
  /\ UNCHANGED <<busVars, dumpVars, fileVars, device_name, stdin_all, stdin,
                 c, handlers, written, cb_writing, cb_byte, recv, cntVars>>

\* The device raises CharReceived on the emulation thread: __printer(b)
\* is entered while it is registered.
PrinterBegin ==
  /\ handlers > 0
  /\ ~cb_writing
  /\ recv < MaxRecv
  /\ \E b \in DevBytes : cb_byte' = b
  /\ cb_writing' = TRUE
  /\ recv' = recv + 1
  /\ UNCHANGED <<pc, result, busVars, dumpVars, fileVars, device_name,
                 stdin_all, stdin, c, handlers, written, fg_writing, out,
                 cntVars>>

\* sys.stdout.write(chr(b)) in __printer completes.
PrinterEnd ==
  /\ cb_writing
  /\ cb_writing' = FALSE
  /\ out' = Append(out, <<"cb", cb_byte>>)
  /\ UNCHANGED <<pc, result, busVars, dumpVars, fileVars, device_name,
                 stdin_all, stdin, c, handlers, written, fg_writing, cb_byte,
                 recv, cntVars>>

InitUart ==
  /\ Loaded
  /\ mem = DefaultImage
  /\ fs = [p \in Paths |-> NoFile]
  /\ fs_before = fs

NextUart ==
  \/ UartCall \/ UartConvertOk \/ UartConvertFail
  \/ FgWriteBegin \/ PrintNotFound \/ PrintRedirecting \/ Subscribe
  \/ ReadChar \/ WriteChar \/ Unsubscribe \/ PrintDisconnected
  \/ PrinterBegin \/ PrinterEnd

SpecUart == InitUart /\ [][NextUart]_vars

(* ------------------------------- claims -------------------------------- *)
\* Number of rows range(start, start + count, w) yields.
CeilDiv(n, w) == (n + w - 1) \div w

\* C1: when count > 0 is not a multiple of width, a completed mc_dump has
\* emitted ceil(count/width) rows, its last row holds exactly count mod
\* width bytes, and no bus read covers an address at or beyond start+count.
C1_PartialLastRow ==
  (pc = "done" /\ mem_count > 0 /\ mem_count % wid # 0) =>
    /\ Len(rows) = CeilDiv(mem_count, wid)
    /\ Len(rows[Len(rows)].hex) = mem_count % wid
    /\ \A i \in 1..Len(reads) :
         reads[i][1] + reads[i][2] <= mem_start + mem_count

\* C2: whenever a session of mc_uart_connect has ended, by returning or by
\* raising, the printer callback is no longer registered on CharReceived.
C2_UnsubscribedAtSessionEnd ==
  (pc \in {"done", "raised"}) => handlers = 0

\* C3: in every emitted row the printable column shows byte b as itself
\* exactly when 0x20 <= b < 0x7F, and as '.' (46) otherwise.
C3_PrintableColumn ==
  \A i \in 1..Len(rows) : \A b \in 1..Len(rows[i].hex) :
    rows[i].ascii[b] =
      IF 32 <= rows[i].hex[b] /\ rows[i].hex[b] < 127
        THEN rows[i].hex[b] ELSE 46

RECURSIVE BeforeEsc(_)
BeforeEsc(input) ==
  IF input = <<>> \/ Head(input) = "ESC" THEN <<>>
  ELSE <<Head(input)>> \o BeforeEsc(Tail(input))

CodePoints(input) ==
  [i \in 1..Len(input) |->
     IF input[i] = "A" THEN 65 ELSE IF input[i] = "B" THEN 66 ELSE 27]

\* C4: the WriteChar calls are, in order, the code points of the input
\* characters read so far, all of them before the first ESC; ESC (27) is
\* never forwarded; once ESC is read everything before it has been
\* forwarded, and the session then unsubscribes and returns None.  A
\* session returns normally only through ESC.
C4_ForwardsUntilEsc ==
  LET codes    == CodePoints(BeforeEsc(stdin_all))
      consumed == Len(stdin_all) - Len(stdin)
      afterEsc == pc \in {"unsubscribe", "print_disconnected"}
                    \/ (pc = "done" /\ result = "None")
  IN  /\ Len(written) <= Len(codes)
      /\ written = SubSeq(codes, 1, Len(written))
      /\ \A i \in 1..Len(written) : written[i] # 27
      /\ pc = "read" => Len(written) = consumed
      /\ pc = "write" => Len(written) = consumed - 1
      /\ afterEsc => /\ written = codes
                     /\ Len(codes) < Len(stdin_all)
                     /\ consumed = Len(codes) + 1
      /\ (pc = "print_disconnected" \/ (pc = "done" /\ result = "None"))
           => handlers = 0
      /\ stdin_all = <<"ESC">> => written = <<>>

C4_Witness ==
  /\ pc = "done" /\ result = "None"
  /\ stdin_all = <<"A", "ESC", "B">>
  /\ written = <<65>>
  /\ stdin = <<"B">>

\* C5: for count = k*width with k >= 1, row i (from 0) of mc_dump carries
\* the address start + i*width and the width bytes the bus holds at
\* start + i*width .. start + i*width + width - 1, in ascending order; no
\* more than k rows are ever emitted and a completed dump has exactly k.
C5_ExactMultipleRows ==
  (pc \in {"dump_loop", "done", "raised"} /\ mem_count > 0
     /\ mem_count % wid = 0) =>
    /\ Len(rows) <= mem_count \div wid
    /\ pc = "done" => Len(rows) = mem_count \div wid
    /\ \A i \in 1..Len(rows) :
         /\ rows[i].addr = mem_start + (i - 1) * wid
         /\ Len(rows[i].hex) = wid
         /\ \A b \in 1..wid :
              rows[i].hex[b] = mem[mem_start + (i - 1) * wid + (b - 1)]

C5_Witness ==
  /\ pc = "done"
  /\ mem_start = 1 /\ mem_count = 4 /\ wid = 2
  /\ Len(rows) = 2
  /\ rows[2].addr = 3
  /\ rows[2].hex = <<mem[3], mem[4]>>
  /\ mem[3] # mem[4]

\* C6: when the named peripheral does not resolve to a UART, the command
\* never raises, never subscribes, never reads stdin and never calls
\* WriteChar; it prints the diagnostic and returns a status different from
\* the one a successful session returns.
C6_FailedConnect ==
  /\ (pc # "idle" /\ ~(device_name = "uart0")) =>
       /\ pc \in {"uart_convert", "print_not_found", "done"}
       /\ result # "exception"
       /\ handlers = 0
       /\ stdin = stdin_all
       /\ written = <<>>
       /\ pc = "done" => out = << <<"fg", "not found">> >>
  /\ pc = "done" => (result = "None" <=> device_name = "uart0")

C6_Witness ==
  /\ pc = "done"
  /\ device_name = "gpio"
  /\ result = "1"
  /\ stdin_all = <<"A", "ESC">>
  /\ stdin = stdin_all

\* C7: once mc_dump_file has returned or raised, the file handle it opened
\* is not open any more.
C7_HandleClosed ==
  (pc \in {"done", "raised"}) => fl # "open"

\* C8: after a successful mc_dump_file the file at the path holds exactly
\* the count bytes of the single bus read of (start, count), in order, and
\* nothing of its earlier content.
C8_FileHoldsBusBytes ==
  (pc = "done") =>
    /\ reads = << <<mem_start, mem_count>> >>
    /\ Len(fs[filename]) = mem_count
    /\ \A i \in 1..mem_count : fs[filename][i] = mem[mem_start + i - 1]
    /\ fs[filename] = tab

C8_Witness ==
  /\ pc = "done"
  /\ fs_before[filename] = <<9, 9, 9, 9, 9>>
  /\ mem_count = 3
  /\ fs[filename] = <<mem[mem_start], mem[mem_start + 1], mem[mem_start + 2]>>

\* C9: the foreground thread writes to stdout only while the callback is
\* not subscribed, and a foreground write and a callback write are never in
\* progress together.
C9_NoConcurrentWrites ==
  /\ fg_writing => handlers = 0
  /\ ~(fg_writing /\ cb_writing)

\* C10: the n-th mc_next_value call (from 0) prints n + offset_n and leaves
\* the counter at n + 1, whatever the offsets.
C10_CounterPerCall ==
  /\ current_value = Len(offsets)
  /\ Len(printed) = Len(offsets)
  /\ \A n \in 1..Len(offsets) : printed[n] = (n - 1) + offsets[n]

C10_Witness ==
  /\ offsets = <<0, 5, 0>>
  /\ printed = <<0, 6, 2>>
  /\ current_value = 3

====
